---- MODULE Spec2Model ----
(***************************************************************************)
(* Model of document_validator.py: the three validators BasicValidator,    *)
(* OCRValidator and AzureAIVisionValidator, their analyze methods, the     *)
(* print_result formatter and the command line entry point main.           *)
(*                                                                         *)
(* A Python dict is a function from field names to values; a field is      *)
(* present iff its name is in the DOMAIN.  A Python str that the program   *)
(* builds (an error, a warning, a note) is the sequence of its words, so   *)
(* that an f-string is a concatenation and "contains the word w" is        *)
(* membership.  A file path is the sequence of its characters.             *)
(***************************************************************************)
EXTENDS Integers, Sequences, FiniteSets, TLC

(***************************************************************************)
(* Bounds                                                                  *)
(***************************************************************************)
\* longest per-token confidence list the OCR engine returns
MaxTokens == 2
\* how far around 0 and around MAX_FILE_SIZE the file sizes are drawn
SizeSlack == 1
\* analyze calls a library caller makes on its validator
MaxCalls == 3
\* base-1024 digits of the largest byte count given to _format_size
MaxDigits == 6

(***************************************************************************)
(* Python values                                                           *)
(***************************************************************************)
None == "<None>"

\* bool(x) of an Optional[str]
Truthy(x) == x # None /\ x # ""

\* the expression  a or b
PyOr(a, b) == IF Truthy(a) THEN a ELSE b

\* str(x) of an Optional[str], as an f-string renders it
Str(x) == IF x = None THEN "None" ELSE x

Put(d, k, v) == [x \in (DOMAIN d) \cup {k} |-> IF x = k THEN v ELSE d[x]]

Has(d, k) == k \in DOMAIN d

Contains(msg, w) == \E i \in 1..Len(msg) : msg[i] = w

RECURSIVE SumSeq(_)
SumSeq(s) == IF s = <<>> THEN 0 ELSE Head(s) + SumSeq(Tail(s))

SeqsUpTo(S, n) == UNION {[1..k -> S] : k \in 0..n}

(***************************************************************************)
(* BasicValidator: class constants and helpers                             *)
(***************************************************************************)
SUPPORTED_FORMATS ==
    {"image/png", "image/jpeg", "image/jpg", "image/gif", "image/bmp",
     "image/tiff", "application/pdf", "image/webp"}

MAX_FILE_SIZE == 50 * 1024 * 1024

(* A byte count as _format_size sees it: a Python int has no upper limit,  *)
(* so it is kept as its base-1024 digits, least significant first, and     *)
(* the loop's  size_bytes /= 1024.0  moves the point one digit to the left.*)
RECURSIVE Base1024(_)
Base1024(n) == IF n < 1024 THEN <<n>> ELSE <<n % 1024>> \o Base1024(n \div 1024)

\* the digits of 100 * fraction, least significant first, then the carry out
RECURSIVE Times100(_, _)
Times100(fraction, carry) ==
    IF fraction = <<>> THEN <<carry>>
    ELSE LET t == 100 * Head(fraction) + carry
         IN  <<t % 1024>> \o Times100(Tail(fraction), t \div 1024)

RECURSIVE Whole(_)
Whole(ds) == IF ds = <<>> THEN 0 ELSE Head(ds) + 1024 * Whole(Tail(ds))

(* f"{x:.2f}" of the exact value x = size / 1024^k, in hundredths: the     *)
(* float is exact below 2^53 and the format rounds half to even.           *)
Round2(size, k) ==
    LET whole == Whole(SubSeq(size, k + 1, Len(size)))
        p == Times100(SubSeq(size, 1, k), 0)
        q == p[k + 1]
        above == k > 0 /\ (p[k] > 512 \/ (p[k] = 512 /\ \E j \in 1..(k - 1) : p[j] # 0))
        tie == k > 0 /\ p[k] = 512 /\ \A j \in 1..(k - 1) : p[j] = 0
        up == above \/ (tie /\ q % 2 = 1)
    IN  100 * whole + q + (IF up THEN 1 ELSE 0)

Fmt2f(h) ==
    ToString(h \div 100) \o "." \o ToString((h % 100) \div 10) \o ToString(h % 10)

Units == <<"B", "KB", "MB", "GB">>

\* size_bytes < 1024.0 after k divisions: no digit above the point's left neighbour
Below1024(size, k) == \A j \in (k + 2)..Len(size) : size[j] = 0

\* mutant: the loop tests  size_bytes <= 1024.0
RECURSIVE FormatLoop_le(_, _, _)
FormatLoop_le(size, k, i) ==
    IF i > Len(Units)
    THEN Fmt2f(Round2(size, k)) \o " TB"
    ELSE IF Below1024(size, k) \/ size = [j \in 1..(k + 2) |-> IF j = k + 2 THEN 1 ELSE 0]
         THEN Fmt2f(Round2(size, k)) \o " " \o Units[i]
         ELSE FormatLoop_le(size, k + 1, i + 1)

\* the for loop: the unit of pass i is tested after k = i - 1 divisions
RECURSIVE FormatLoop(_, _, _)
FormatLoop(size, k, i) ==
    IF i > Len(Units)
    THEN Fmt2f(Round2(size, k)) \o " TB"
    ELSE IF Below1024(size, k)
         THEN Fmt2f(Round2(size, k)) \o " " \o Units[i]
         ELSE FormatLoop(size, k + 1, i + 1)

format_size(size_bytes) == FormatLoop(size_bytes, 0, 1)

(***************************************************************************)
(* Paths, pathlib and mimetypes                                            *)
(***************************************************************************)
Paths ==
    { <<>>,
      <<"a", ".", "p", "n", "g">>,
      <<"b", ".", "t", "x", "t">>,
      <<"c">> }

RECURSIVE RFind(_, _, _)
RFind(s, ch, i) == IF i = 0 THEN 0 ELSE IF s[i] = ch THEN i ELSE RFind(s, ch, i - 1)

\* pathlib.PurePath.suffix of a single-component path
Suffix(p) ==
    LET i == RFind(p, ".", Len(p))
    IN  IF 1 < i /\ i < Len(p) THEN SubSeq(p, i, Len(p)) ELSE <<>>

\* mimetypes.guess_type(path)[0]: the platform table, on the suffix
guess_type(p) ==
    LET ext == Suffix(p)
    IN  CASE ext = <<".", "p", "n", "g">> -> "image/png"
          [] ext = <<".", "t", "x", "t">> -> "text/plain"
          [] OTHER -> None

(***************************************************************************)
(* The filesystem as one analyze call sees it                              *)
(***************************************************************************)
Sizes == (0..SizeSlack) \cup ((MAX_FILE_SIZE - SizeSlack)..(MAX_FILE_SIZE + SizeSlack))

NoFile == [exists |-> FALSE, isfile |-> FALSE, size |-> 0, readable |-> FALSE]

Directory == [exists |-> TRUE, isfile |-> FALSE, size |-> 0, readable |-> FALSE]

RegularFiles ==
    {[exists |-> TRUE, isfile |-> TRUE, size |-> s, readable |-> r] :
        s \in Sizes, r \in BOOLEAN}

\* os.path.exists("") is False; any other path may name nothing, a directory or a file
FileStates(p) == IF p = <<>> THEN {NoFile} ELSE {NoFile, Directory} \cup RegularFiles

\* str(e) of the OSError that open() raises
OpenError == <<"Permission", "denied">>

(***************************************************************************)
(* State                                                                   *)
(***************************************************************************)
VARIABLES
    validator,   \* the validator instance: its attributes
    ctor,        \* the arguments and the environment its constructor saw
    pc,          \* position inside analyze
    file_path,   \* the argument of the running analyze call
    file,        \* what the filesystem holds at file_path during the call
    result,      \* the result dict of the running (or last) analyze call
    writes,      \* assignments to result['status'] made by the running call
    locals,      \* local variables of the running call that outlive a step
    ops,         \* what the running call has done outside the process, by kind
    mainpc,      \* position inside main ("none": the validator is used as a library)
    args,        \* main's parsed command line
    calls,       \* analyze calls main has made
    output,      \* the blocks print_result has printed
    exit_code,   \* the code main passed to sys.exit (-1: none yet)
    external,    \* what the OCR engine, the SDK and the service did in the running call
    kept,        \* a Result the library caller kept from an earlier call, and its call
    format_arg,  \* the argument of a direct _format_size call
    format_ret   \* what that call returned ("": not called yet)

mainvars == <<mainpc, args, calls, output, exit_code>>

\* what no step of analyze or main touches
aux == <<kept, format_arg, format_ret>>

vars == <<validator, ctor, pc, file_path, file, result, writes, locals, ops, mainvars,
          external, aux>>

\* BasicValidator.__init__
BasicValidator == [kind |-> "basic", name |-> "Basic Validation"]

SetStatus(d, s) == Put(d, "status", s)

Fail(d, msg) == Put(SetStatus(d, "failed"), "error", msg)

SetCheck(d, k, v) == Put(d, "checks", Put(d["checks"], k, v))

(* What a call does outside the process: os.path.exists / isfile / getsize  *)
(* (stat), opening and reading the file (read), a run of the OCR engine     *)
(* (ocr), a request to the vision service (net), a client construction.     *)
NoOps == [stat |-> 0, read |-> 0, ocr |-> 0, net |-> 0, client |-> 0]

Bump(o, k) == [o EXCEPT ![k] = @ + 1]

(* One thing a collaborator outside the validator did in the running call:  *)
(* it raised (error is str(e)) or it returned (value holds what).           *)
Raised(op, msg) == [op |-> op, error |-> msg, value |-> <<>>]

Gave(op, v) == [op |-> op, error |-> <<>>, value |-> <<v>>]

\* analyze is entered by a library caller between calls, or by main at line 412
CanEnter(p) ==
    \/ mainpc = "none" /\ pc \in {"idle", "done"} /\ calls < MaxCalls
    \/ mainpc = "analyze" /\ p = args.file

\* mutant: one result dict per instance, updated in place by every call
Enter_shared(kind, p, f, fresh, first) ==
    /\ CanEnter(p)
    /\ validator.kind = kind
    /\ file_path' = p
    /\ file' = f
    /\ result' = [k \in (DOMAIN result) \cup (DOMAIN fresh) |->
                        IF k \in DOMAIN fresh THEN fresh[k] ELSE result[k]]
    /\ writes' = 0
    /\ locals' = <<>>
    /\ ops' = NoOps
    /\ pc' = first
    /\ mainpc' = IF mainpc = "analyze" THEN "running" ELSE mainpc
    /\ calls' = calls + 1
    /\ external' = <<>>
    /\ UNCHANGED <<validator, ctor, args, output, exit_code, aux>>

Enter(kind, p, f, fresh, first) ==
    /\ CanEnter(p)
    /\ validator.kind = kind
    /\ file_path' = p
    /\ file' = f
    /\ result' = fresh
    /\ writes' = 0
    /\ locals' = <<>>
    /\ ops' = NoOps
    /\ pc' = first
    /\ mainpc' = IF mainpc = "analyze" THEN "running" ELSE mainpc
    /\ calls' = calls + 1
    /\ external' = <<>>
    /\ UNCHANGED <<validator, ctor, args, output, exit_code, aux>>

(***************************************************************************)
(* BasicValidator.analyze                                                  *)
(***************************************************************************)
\* mutant: the method and file_path values swapped
Basic_enter_swapped(p, f) ==
    Enter("basic", p, f,
          [method |-> p, file_path |-> validator.name, status |-> "unknown",
           checks |-> <<>>],
          "basic_exists")

Basic_enter(p, f) ==
    Enter("basic", p, f,
          [method |-> validator.name, file_path |-> p, status |-> "unknown",
           checks |-> <<>>],
          "basic_exists")

\* mutant: a missing file is reported as a warning
Basic_exists_warns ==
    /\ pc = "basic_exists"
    /\ ops' = Bump(ops, "stat")
    /\ IF ~file.exists
       THEN /\ result' = Put(SetStatus(result, "warning"), "warning",
                             <<"File", "does", "not", "exist">>)
            /\ writes' = writes + 1
            /\ pc' = "done"
       ELSE /\ pc' = "basic_isfile"
            /\ UNCHANGED <<result, writes>>
    /\ UNCHANGED <<validator, ctor, file_path, file, locals, mainvars, external, aux>>

Basic_exists ==
    /\ pc = "basic_exists"
    /\ ops' = Bump(ops, "stat")
    /\ IF ~file.exists
       THEN /\ result' = Fail(result, <<"File", "does", "not", "exist">>)
            /\ writes' = writes + 1
            /\ pc' = "done"
       ELSE /\ pc' = "basic_isfile"
            /\ UNCHANGED <<result, writes>>
    /\ UNCHANGED <<validator, ctor, file_path, file, locals, mainvars, external, aux>>

Basic_isfile ==
    /\ pc = "basic_isfile"
    /\ ops' = Bump(ops, "stat")
    /\ IF ~file.isfile
       THEN /\ result' = Fail(result, <<"Path", "is", "not", "a", "file">>)
            /\ writes' = writes + 1
            /\ pc' = "done"
       ELSE /\ pc' = "basic_size"
            /\ UNCHANGED <<result, writes>>
    /\ UNCHANGED <<validator, ctor, file_path, file, locals, mainvars, external, aux>>

\* mutant: file_size >= MAX_FILE_SIZE instead of >
Basic_size_ge ==
    /\ pc = "basic_size"
    /\ ops' = Bump(ops, "stat")
    /\ LET file_size == file.size
           r1 == SetCheck(result, "file_size", file_size)
           r2 == SetCheck(r1, "file_size_readable", format_size(Base1024(file_size)))
       IN  IF file_size >= MAX_FILE_SIZE
           THEN /\ result' = Fail(r2, <<"File", "size", "exceeds", "maximum",
                                        "allowed", "size",
                                        "(" \o format_size(Base1024(MAX_FILE_SIZE)) \o ")">>)
                /\ writes' = writes + 1
                /\ pc' = "done"
           ELSE IF file_size = 0
                THEN /\ result' = Fail(r2, <<"File", "is", "empty">>)
                     /\ writes' = writes + 1
                     /\ pc' = "done"
                ELSE /\ result' = r2
                     /\ pc' = "basic_mime"
                     /\ UNCHANGED writes
    /\ UNCHANGED <<validator, ctor, file_path, file, locals, mainvars, external, aux>>

Basic_size ==
    /\ pc = "basic_size"
    /\ ops' = Bump(ops, "stat")
    /\ LET file_size == file.size
           r1 == SetCheck(result, "file_size", file_size)
           r2 == SetCheck(r1, "file_size_readable", format_size(Base1024(file_size)))
       IN  IF file_size > MAX_FILE_SIZE
           THEN /\ result' = Fail(r2, <<"File", "size", "exceeds", "maximum",
                                        "allowed", "size",
                                        "(" \o format_size(Base1024(MAX_FILE_SIZE)) \o ")">>)
                /\ writes' = writes + 1
                /\ pc' = "done"
           ELSE IF file_size = 0
                THEN /\ result' = Fail(r2, <<"File", "is", "empty">>)
                     /\ writes' = writes + 1
                     /\ pc' = "done"
                ELSE /\ result' = r2
                     /\ pc' = "basic_mime"
                     /\ UNCHANGED writes
    /\ UNCHANGED <<validator, ctor, file_path, file, locals, mainvars, external, aux>>

Basic_mime ==
    /\ pc = "basic_mime"
    /\ UNCHANGED ops
    /\ LET mime_type == guess_type(file_path)
           r1 == SetCheck(result, "mime_type", mime_type)
       IN  IF mime_type \in SUPPORTED_FORMATS
           THEN /\ result' = SetCheck(r1, "format_supported", TRUE)
                /\ UNCHANGED writes
           ELSE /\ result' = Put(SetStatus(SetCheck(r1, "format_supported", FALSE),
                                           "warning"),
                                 "warning",
                                 <<"File", "type", Str(mime_type), "may", "not", "be",
                                   "fully", "supported">>)
                /\ writes' = writes + 1
    /\ pc' = "basic_readable"
    /\ UNCHANGED <<validator, ctor, file_path, file, locals, mainvars, external, aux>>

Basic_readable ==
    /\ pc = "basic_readable"
    /\ ops' = Bump(ops, "read")
    /\ IF file.readable
       THEN /\ result' = SetCheck(result, "readable", TRUE)
            /\ pc' = "basic_finish"
            /\ UNCHANGED writes
       ELSE /\ result' = Fail(result, <<"File", "is", "not", "readable:">> \o OpenError)
            /\ writes' = writes + 1
            /\ pc' = "done"
    /\ UNCHANGED <<validator, ctor, file_path, file, locals, mainvars, external, aux>>

\* mutant: the final status is set without testing for 'unknown'
Basic_finish_always_passed ==
    /\ pc = "basic_finish"
    /\ UNCHANGED ops
    /\ result' = SetStatus(SetCheck(result, "extension", Suffix(file_path)), "passed")
    /\ writes' = writes + 1
    /\ pc' = "done"
    /\ UNCHANGED <<validator, ctor, file_path, file, locals, mainvars, external, aux>>

Basic_finish ==
    /\ pc = "basic_finish"
    /\ UNCHANGED ops
    /\ LET r1 == SetCheck(result, "extension", Suffix(file_path))
       IN  IF r1["status"] = "unknown"
           THEN /\ result' = SetStatus(r1, "passed")
                /\ writes' = writes + 1
           ELSE /\ result' = r1
                /\ UNCHANGED writes
    /\ pc' = "done"
    /\ UNCHANGED <<validator, ctor, file_path, file, locals, mainvars, external, aux>>

(***************************************************************************)
(* OCRValidator                                                            *)
(***************************************************************************)
\* what  import pytesseract; from PIL import Image  does in __init__
OCRProbes == {"ok", "no_pytesseract", "no_PIL"}

ImportErrorOf(probe) ==
    CASE probe = "no_pytesseract" -> <<"No", "module", "named", "'pytesseract'">>
      [] probe = "no_PIL" -> <<"No", "module", "named", "'PIL'">>
      [] probe = "no_azure" -> <<"No", "module", "named", "'azure'">>

\* OCRValidator.__init__ with _check_dependencies
OCRValidator(probe) ==
    IF probe = "ok"
    THEN [kind |-> "ocr", name |-> "OCR Text Extraction", available |-> TRUE]
    ELSE [kind |-> "ocr", name |-> "OCR Text Extraction", available |-> FALSE,
          import_error |-> ImportErrorOf(probe)]

\* texts the engine may recognise, as character sequences
Texts == { <<>>, <<" ">>, <<"a">>, <<" ", "a", " ", "b", "\n">> }

Whitespace == {" ", "\n"}

\* len(text.strip())
RECURSIVE LStrip(_)
LStrip(t) == IF t # <<>> /\ Head(t) \in Whitespace THEN LStrip(Tail(t)) ELSE t

RECURSIVE RStrip(_)
RStrip(t) ==
    IF t # <<>> /\ t[Len(t)] \in Whitespace THEN RStrip(SubSeq(t, 1, Len(t) - 1)) ELSE t

Strip(t) == RStrip(LStrip(t))

\* len([w for w in text.split() if w.strip()]): the maximal non-blank runs
WordCount(t) ==
    Cardinality({i \in 1..Len(t) :
        /\ t[i] \notin Whitespace
        /\ (i = 1 \/ t[i - 1] \in Whitespace)})

\* per-token confidences of image_to_data: -1 marks "no confidence"
ConfValues == {-1, 0, 96}

ConfLists == SeqsUpTo(ConfValues, MaxTokens)

Scored(conf) == SelectSeq(conf, LAMBDA c : c # -1)

\* str(e) of what the OCR engine or the image library raises
EngineError == <<"engine", "error">>

ZeroDivisionError == <<"division", "by", "zero">>

OCR_enter(p, f) ==
    Enter("ocr", p, f,
          [method |-> validator.name, file_path |-> p, status |-> "unknown"],
          "ocr_available")

\* mutant: the existence check comes before the availability check
OCR_available_after_exists ==
    /\ pc = "ocr_available"
    /\ UNCHANGED ops
    /\ IF ~file.exists
       THEN /\ result' = Fail(result, <<"File", "does", "not", "exist">>)
            /\ writes' = writes + 1
            /\ pc' = "done"
       ELSE IF ~validator.available
       THEN /\ result' = Put(Fail(result, <<"OCR", "dependencies", "not", "available:">>
                                           \o validator.import_error),
                             "note",
                             <<"Install", "with:", "pip", "install", "pytesseract",
                               "pillow">>)
            /\ writes' = writes + 1
            /\ pc' = "done"
       ELSE /\ pc' = "ocr_open"
            /\ UNCHANGED <<result, writes>>
    /\ UNCHANGED <<validator, ctor, file_path, file, locals, mainvars, external, aux>>

OCR_available ==
    /\ pc = "ocr_available"
    /\ UNCHANGED ops
    /\ IF ~validator.available
       THEN /\ result' = Put(Fail(result, <<"OCR", "dependencies", "not", "available:">>
                                           \o validator.import_error),
                             "note",
                             <<"Install", "with:", "pip", "install", "pytesseract",
                               "pillow">>)
            /\ writes' = writes + 1
            /\ pc' = "done"
       ELSE /\ pc' = "ocr_exists"
            /\ UNCHANGED <<result, writes>>
    /\ UNCHANGED <<validator, ctor, file_path, file, locals, mainvars, external, aux>>

OCR_exists ==
    /\ pc = "ocr_exists"
    /\ ops' = Bump(ops, "stat")
    /\ IF ~file.exists
       THEN /\ result' = Fail(result, <<"File", "does", "not", "exist">>)
            /\ writes' = writes + 1
            /\ pc' = "done"
       ELSE /\ pc' = "ocr_open"
            /\ UNCHANGED <<result, writes>>
    /\ UNCHANGED <<validator, ctor, file_path, file, locals, mainvars, external, aux>>

OCR_except(msg) ==
    /\ result' = Fail(result, <<"OCR", "processing", "failed:">> \o msg)
    /\ writes' = writes + 1
    /\ pc' = "done"

\* Image.open: raises on a directory or an unreadable file, may raise on any other
OCR_open ==
    /\ pc = "ocr_open"
    /\ ops' = Bump(ops, "read")
    /\ \/ /\ ~(file.isfile /\ file.readable)
          /\ OCR_except(OpenError)
          /\ external' = Append(external, Raised("Image.open", OpenError))
       \/ /\ file.isfile /\ file.readable
          /\ OCR_except(<<"cannot", "identify", "image", "file">>)
          /\ external' = Append(external,
                                Raised("Image.open",
                                       <<"cannot", "identify", "image", "file">>))
       \/ /\ file.isfile /\ file.readable
          /\ pc' = "ocr_string"
          /\ external' = Append(external, Gave("Image.open", "image"))
          /\ UNCHANGED <<result, writes>>
    /\ UNCHANGED <<validator, ctor, file_path, file, locals, mainvars, aux>>

\* pytesseract.image_to_string
OCR_image_to_string ==
    /\ pc = "ocr_string"
    /\ ops' = Bump(ops, "ocr")
    /\ \/ /\ OCR_except(EngineError)
          /\ external' = Append(external, Raised("image_to_string", EngineError))
          /\ UNCHANGED locals
       \/ \E text \in Texts :
            /\ locals' = [text |-> text]
            /\ external' = Append(external, Gave("image_to_string", text))
            /\ pc' = "ocr_data"
            /\ UNCHANGED <<result, writes>>
    /\ UNCHANGED <<validator, ctor, file_path, file, mainvars, aux>>

\* sum(conf) / len([c for c in conf if c != -1]) if conf else 0
Confidence(conf) ==
    IF conf # <<>>
    THEN [num |-> SumSeq(conf), den |-> Len(Scored(conf))]
    ELSE [num |-> 0, den |-> 1]

\* pytesseract.image_to_data and the four result fields
OCR_image_to_data ==
    /\ pc = "ocr_data"
    /\ ops' = Bump(ops, "ocr")
    /\ \/ /\ OCR_except(EngineError)
          /\ external' = Append(external, Raised("image_to_data", EngineError))
          /\ UNCHANGED locals
       \/ \E conf \in ConfLists :
            LET text == locals.text
                data == [conf |-> conf]
                r1 == Put(result, "text", text)
                r2 == Put(r1, "text_length", Len(Strip(text)))
                r3 == Put(r2, "word_count", WordCount(text))
                c  == Confidence(data.conf)
            IN  /\ locals' = Put(locals, "data", data)
                /\ external' = Append(external, Gave("image_to_data", data))
                /\ IF c.den = 0
                   THEN /\ result' = Fail(r3, <<"OCR", "processing", "failed:">>
                                               \o ZeroDivisionError)
                        /\ writes' = writes + 1
                        /\ pc' = "done"
                   ELSE /\ result' = SetStatus(Put(r3, "confidence", c), "success")
                        /\ writes' = writes + 1
                        /\ pc' = "done"
    /\ UNCHANGED <<validator, ctor, file_path, file, mainvars, aux>>

(***************************************************************************)
(* AzureAIVisionValidator                                                  *)
(***************************************************************************)
AzureProbes == {"ok", "no_azure"}

\* values of the endpoint / key constructor arguments and of os.environ.get
EndpointValues == {None, "", "https://x.cognitiveservices.azure.com/"}

KeyValues == {None, "", "KEY"}

\* os.environ: AZURE_VISION_ENDPOINT and AZURE_VISION_KEY, None when not set
Environs ==
    [endpoint : {None, "https://x.cognitiveservices.azure.com/"}, key : {None, "KEY"}]

\* AzureAIVisionValidator.__init__ with _check_dependencies
AzureAIVisionValidator(endpoint, key, env, probe) ==
    LET base == [kind |-> "azure", name |-> "Azure AI Vision",
                 endpoint |-> PyOr(endpoint, env.endpoint),
                 key |-> PyOr(key, env.key),
                 available |-> (probe = "ok")]
    IN  IF probe = "ok" THEN base ELSE Put(base, "import_error", ImportErrorOf(probe))

(* The response of client.analyze: a feature the service did not return is    *)
(* None on the SDK object, here absent from the DOMAIN.                       *)
Features == <<"caption", "read", "tags", "objects", "people">>

ReadVariants ==
    { <<>>,
      << [lines |-> <<"Hello", "World">>], [lines |-> <<"Bye">>] >> }

SampleFeature(k, rd) ==
    CASE k = "caption" -> [text |-> "a cat", confidence |-> 90]
      [] k = "read" -> [blocks |-> rd]
      [] k = "tags" -> [list |-> << [name |-> "cat", confidence |-> 99],
                                     [name |-> "pet", confidence |-> 80] >>]
      [] k = "objects" -> [list |-> << [tags |-> << [name |-> "cat",
                                                      confidence |-> 70] >>],
                                        [tags |-> <<>>] >>]
      [] k = "people" -> [list |-> << "person" >>]

FeatureSets ==
    { {}, {"caption"}, {"people"}, {"read", "objects"}, {"caption", "read", "tags"},
      {"caption", "read", "tags", "objects", "people"} }

Responses == {[k \in S |-> SampleFeature(k, rd)] : S \in FeatureSets, rd \in ReadVariants}

RECURSIVE Flatten(_)
Flatten(ss) == IF ss = <<>> THEN <<>> ELSE Head(ss) \o Flatten(Tail(ss))

\* ' '.join(strings)
RECURSIVE Join(_)
Join(ss) ==
    IF ss = <<>> THEN ""
    ELSE IF Len(ss) = 1 THEN ss[1]
    ELSE ss[1] \o " " \o Join(Tail(ss))

\* the entry of result['analysis'] that feature k of the response maps to
MapFeature(k, v) ==
    CASE k = "caption" -> [text |-> v.text, confidence |-> v.confidence]
      [] k = "read" ->
            LET blocks == [i \in 1..Len(v.blocks) |-> [lines |-> v.blocks[i].lines]]
            IN  [blocks |-> blocks,
                 full_text |-> Join(Flatten([i \in 1..Len(blocks) |-> blocks[i].lines]))]
      [] k = "tags" ->
            [i \in 1..Len(v.list) |->
                [name |-> v.list[i].name, confidence |-> v.list[i].confidence]]
      [] k = "objects" ->
            [i \in 1..Len(v.list) |->
                IF v.list[i].tags # <<>>
                THEN [name |-> v.list[i].tags[1].name,
                      confidence |-> v.list[i].tags[1].confidence]
                ELSE [name |-> "unknown", confidence |-> 0]]
      [] k = "people" -> Len(v.list)

AnalysisKey(k) ==
    CASE k = "read" -> "text"
      [] k = "people" -> "people_count"
      [] OTHER -> k

\* result['analysis'] after the first n features of the response were mapped
RECURSIVE MapUpTo(_, _)
MapUpTo(resp, n) ==
    IF n = 0 THEN <<>>
    ELSE LET k == Features[n]
             before == MapUpTo(resp, n - 1)
         IN  IF Has(resp, k) THEN Put(before, AnalysisKey(k), MapFeature(k, resp[k]))
             ELSE before

\* str(e) of what the SDK raises
ClientError == <<"Invalid", "endpoint">>

ServiceError == <<"(401)", "Access", "denied">>

MappingError == <<"'NoneType'", "object", "has", "no", "attribute">>

Azure_enter(p, f) ==
    Enter("azure", p, f,
          [method |-> validator.name, file_path |-> p, status |-> "unknown"],
          "azure_available")

Azure_available ==
    /\ pc = "azure_available"
    /\ UNCHANGED ops
    /\ IF ~validator.available
       THEN /\ result' = Put(Fail(result, <<"Azure", "AI", "Vision", "SDK", "not",
                                            "available:">> \o validator.import_error),
                             "note",
                             <<"Install", "with:", "pip", "install",
                               "azure-ai-vision-imageanalysis">>)
            /\ writes' = writes + 1
            /\ pc' = "done"
       ELSE /\ pc' = "azure_credentials"
            /\ UNCHANGED <<result, writes>>
    /\ UNCHANGED <<validator, ctor, file_path, file, locals, mainvars, external, aux>>

\* mutant: only the endpoint is tested
Azure_credentials_endpoint_only ==
    /\ pc = "azure_credentials"
    /\ UNCHANGED ops
    /\ IF ~Truthy(validator.endpoint)
       THEN /\ result' = Put(Fail(result, <<"Azure", "credentials", "not",
                                            "configured">>),
                             "note",
                             <<"Set", "AZURE_VISION_ENDPOINT", "and",
                               "AZURE_VISION_KEY", "environment", "variables">>)
            /\ writes' = writes + 1
            /\ pc' = "done"
       ELSE /\ pc' = "azure_exists"
            /\ UNCHANGED <<result, writes>>
    /\ UNCHANGED <<validator, ctor, file_path, file, locals, mainvars, external, aux>>

Azure_credentials ==
    /\ pc = "azure_credentials"
    /\ UNCHANGED ops
    /\ IF ~Truthy(validator.endpoint) \/ ~Truthy(validator.key)
       THEN /\ result' = Put(Fail(result, <<"Azure", "credentials", "not",
                                            "configured">>),
                             "note",
                             <<"Set", "AZURE_VISION_ENDPOINT", "and",
                               "AZURE_VISION_KEY", "environment", "variables">>)
            /\ writes' = writes + 1
            /\ pc' = "done"
       ELSE /\ pc' = "azure_exists"
            /\ UNCHANGED <<result, writes>>
    /\ UNCHANGED <<validator, ctor, file_path, file, locals, mainvars, external, aux>>

Azure_exists ==
    /\ pc = "azure_exists"
    /\ ops' = Bump(ops, "stat")
    /\ IF ~file.exists
       THEN /\ result' = Fail(result, <<"File", "does", "not", "exist">>)
            /\ writes' = writes + 1
            /\ pc' = "done"
       ELSE /\ pc' = "azure_client"
            /\ UNCHANGED <<result, writes>>
    /\ UNCHANGED <<validator, ctor, file_path, file, locals, mainvars, external, aux>>

Azure_except(msg) ==
    /\ result' = Fail(result, <<"Azure", "AI", "Vision", "analysis", "failed:">> \o msg)
    /\ writes' = writes + 1
    /\ pc' = "done"

\* ImageAnalysisClient(endpoint=..., credential=AzureKeyCredential(key))
Azure_client ==
    /\ pc = "azure_client"
    /\ ops' = Bump(ops, "client")
    /\ \/ /\ Azure_except(ClientError)
          /\ external' = Append(external, Raised("ImageAnalysisClient", ClientError))
          /\ UNCHANGED locals
       \/ /\ locals' = [client |-> [endpoint |-> validator.endpoint,
                                    credential |-> validator.key]]
          /\ external' = Append(external, Gave("ImageAnalysisClient", "client"))
          /\ pc' = "azure_read"
          /\ UNCHANGED <<result, writes>>
    /\ UNCHANGED <<validator, ctor, file_path, file, mainvars, aux>>

\* with open(file_path, 'rb') as f: image_data = f.read()
Azure_read ==
    /\ pc = "azure_read"
    /\ ops' = Bump(ops, "read")
    /\ IF file.isfile /\ file.readable
       THEN /\ locals' = Put(locals, "image_data", file.size)
            /\ pc' = "azure_call"
            /\ UNCHANGED <<result, writes>>
       ELSE /\ Azure_except(OpenError)
            /\ UNCHANGED locals
    /\ UNCHANGED <<validator, ctor, file_path, file, mainvars, external, aux>>

\* mutant: a failed request is sent a second time before giving up
Azure_call_retry ==
    /\ pc = "azure_call"
    /\ \/ /\ ops' = Bump(Bump(ops, "net"), "net")
          /\ Azure_except(ServiceError)
          /\ external' = Append(external, Raised("client.analyze", ServiceError))
          /\ UNCHANGED locals
       \/ \E resp \in Responses :
            /\ ops' = Bump(ops, "net")
            /\ locals' = Put(locals, "analysis_result", resp)
            /\ external' = Append(external, Gave("client.analyze", resp))
            /\ pc' = "azure_map"
            /\ UNCHANGED <<result, writes>>
    /\ UNCHANGED <<validator, ctor, file_path, file, mainvars, aux>>

\* client.analyze(image_data, visual_features=[...]): the one network round trip
Azure_call ==
    /\ pc = "azure_call"
    /\ ops' = Bump(ops, "net")
    /\ \/ /\ Azure_except(ServiceError)
          /\ external' = Append(external, Raised("client.analyze", ServiceError))
          /\ UNCHANGED locals
       \/ \E resp \in Responses :
            /\ locals' = Put(locals, "analysis_result", resp)
            /\ external' = Append(external, Gave("client.analyze", resp))
            /\ pc' = "azure_map"
            /\ UNCHANGED <<result, writes>>
    /\ UNCHANGED <<validator, ctor, file_path, file, mainvars, aux>>

(* Lines 245-286: result['analysis'] = {} and the five features in order.  *)
(* Reading a feature the response holds may raise; what was mapped before  *)
(* stays in result['analysis'].                                            *)
Azure_map ==
    /\ pc = "azure_map"
    /\ UNCHANGED ops
    /\ LET resp == locals.analysis_result
       IN  \/ /\ result' = SetStatus(Put(result, "analysis",
                                         MapUpTo(resp, Len(Features))), "success")
              /\ writes' = writes + 1
              /\ pc' = "done"
              /\ external' = Append(external, Gave("response", 0))
           \/ \E n \in 1..Len(Features) :
                /\ Has(resp, Features[n])
                /\ external' = Append(external,
                                      [op |-> "response", error |-> MappingError,
                                       value |-> <<n>>])
                /\ result' = Fail(Put(result, "analysis", MapUpTo(resp, n - 1)),
                                  <<"Azure", "AI", "Vision", "analysis", "failed:">>
                                  \o MappingError)
                /\ writes' = writes + 1
                /\ pc' = "done"
    /\ UNCHANGED <<validator, ctor, file_path, file, locals, mainvars, aux>>

(***************************************************************************)
(* print_result: the blocks it prints                                      *)
(***************************************************************************)
\* result.get(k) is truthy, for a list or dict value and for a str kept as a sequence
GetTruthy(d, k) == Has(d, k) /\ DOMAIN d[k] # {}

print_result(r, verbose) ==
    LET analysis == r["analysis"]
        error == IF GetTruthy(r, "error")
                 THEN {"error"} \cup (IF GetTruthy(r, "note") THEN {"note"} ELSE {})
                 ELSE {}
        warning == IF GetTruthy(r, "warning") THEN {"warning"} ELSE {}
        checks == IF GetTruthy(r, "checks") THEN {"checks"} ELSE {}
        ocr == IF Has(r, "text_length")
               THEN {"ocr"} \cup (IF verbose /\ GetTruthy(r, "text")
                                  THEN {"ocr_text"} ELSE {})
               ELSE {}
        azure ==
            IF GetTruthy(r, "analysis")
            THEN {"azure"}
                 \cup (IF Has(analysis, "caption") THEN {"caption"} ELSE {})
                 \cup (IF Has(analysis, "text")
                       THEN {"detected_text"}
                            \cup (IF verbose /\ analysis["text"].full_text # ""
                                  THEN {"detected_text_excerpt"} ELSE {})
                       ELSE {})
                 \cup (IF GetTruthy(analysis, "tags") THEN {"tags"} ELSE {})
                 \cup (IF GetTruthy(analysis, "objects")
                       THEN {"objects"} \cup (IF verbose THEN {"object_lines"} ELSE {})
                       ELSE {})
                 \cup (IF Has(analysis, "people_count") THEN {"people"} ELSE {})
            ELSE {}
    IN  {"header"} \cup error \cup warning \cup checks \cup ocr \cup azure

(***************************************************************************)
(* main                                                                    *)
(***************************************************************************)
NoValidator == [kind |-> "none"]

NoCtor == [probe |-> "ok"]

NoArgs == [method |-> "none"]

Constructed(v, c) ==
    /\ validator' = v
    /\ ctor' = c
    /\ mainpc' = "analyze"
    /\ UNCHANGED <<pc, file_path, file, result, writes, locals, ops, args, calls, output,
                   exit_code, external, aux>>

\* main, lines 398-409: the validator that args.method selects
Main_construct ==
    /\ mainpc = "start"
    /\ \/ /\ args.method = "basic"
          /\ Constructed(BasicValidator, NoCtor)
       \/ /\ args.method = "ocr"
          /\ \E probe \in OCRProbes : Constructed(OCRValidator(probe), [probe |-> probe])
       \/ /\ args.method = "azure"
          /\ \E env \in Environs, probe \in AzureProbes :
                Constructed(AzureAIVisionValidator(args.endpoint, args.key, env, probe),
                            [endpoint |-> args.endpoint, key |-> args.key,
                             env |-> env, probe |-> probe])

\* the command lines: --endpoint and --key matter to the azure method only
ArgSets ==
    [method : {"basic", "ocr"}, file : Paths, verbose : BOOLEAN,
     endpoint : {None}, key : {None}]
    \cup [method : {"azure"}, file : Paths, verbose : BOOLEAN,
          endpoint : EndpointValues, key : KeyValues]

\* main, line 415
Main_print ==
    /\ mainpc = "running"
    /\ pc = "done"
    /\ output' = print_result(result, args.verbose)
    /\ mainpc' = "exit"
    /\ UNCHANGED <<validator, ctor, pc, file_path, file, result, writes, locals, ops,
                   args, calls, exit_code, external, aux>>

\* mutant: the warning branch is missing
ExitCode_no_warning(status) == IF status = "failed" THEN 1 ELSE 0

\* the status to exit code mapping of main, lines 418-423
ExitCode(status) ==
    IF status = "failed" THEN 1
    ELSE IF status = "warning" THEN 2
    ELSE 0

Main_exit ==
    /\ mainpc = "exit"
    /\ exit_code' = ExitCode(result["status"])
    /\ mainpc' = "exited"
    /\ UNCHANGED <<validator, ctor, pc, file_path, file, result, writes, locals, ops,
                   args, calls, output, external, aux>>

\* the library caller has kept no Result yet
NoKept == <<>>

\* a validator a library caller has constructed, with what its constructor saw
Constructions ==
    {<<BasicValidator, NoCtor>>}
    \cup {<<OCRValidator(probe), [probe |-> probe]>> : probe \in OCRProbes}
    \cup {<<AzureAIVisionValidator(endpoint, key, env, probe),
            [endpoint |-> endpoint, key |-> key, env |-> env, probe |-> probe]>> :
            endpoint \in EndpointValues, key \in KeyValues, env \in Environs,
            probe \in AzureProbes}

\* nothing has been called yet
Idle ==
    /\ pc = "idle"
    /\ file_path = <<>>
    /\ file = NoFile
    /\ result = <<>>
    /\ writes = 0
    /\ locals = <<>>
    /\ ops = NoOps
    /\ calls = 0
    /\ output = {}
    /\ exit_code = -1
    /\ external = <<>>
    /\ kept = NoKept
    /\ format_ret = ""

(* The process starts either in a library caller that has constructed one  *)
(* validator, or in main with a parsed command line.                       *)
Init ==
    /\ \/ /\ mainpc = "none"
          /\ args = NoArgs
          /\ \E c \in Constructions : validator = c[1] /\ ctor = c[2]
       \/ /\ mainpc = "start"
          /\ args \in ArgSets
          /\ validator = NoValidator
          /\ ctor = NoCtor
    /\ Idle
    /\ format_arg = <<0>>

Next ==
    \/ \E p \in Paths : \E f \in FileStates(p) : Basic_enter(p, f)
    \/ Basic_exists
    \/ Basic_isfile
    \/ Basic_size
    \/ Basic_mime
    \/ Basic_readable
    \/ Basic_finish
    \/ \E p \in Paths : \E f \in FileStates(p) : OCR_enter(p, f)
    \/ OCR_available
    \/ OCR_exists
    \/ OCR_open
    \/ OCR_image_to_string
    \/ OCR_image_to_data
    \/ \E p \in Paths : \E f \in FileStates(p) : Azure_enter(p, f)
    \/ Azure_available
    \/ Azure_credentials
    \/ Azure_exists
    \/ Azure_client
    \/ Azure_read
    \/ Azure_call
    \/ Azure_map
    \/ Main_construct
    \/ Main_print
    \/ Main_exit

Spec == Init /\ [][Next]_vars

(***************************************************************************)
(* A library caller that calls analyze repeatedly on one instance and      *)
(* keeps a Result it was returned                                          *)
(***************************************************************************)
\* result1 = validator1.analyze(file_path): the caller keeps the returned Result
Remember ==
    /\ mainpc = "none"
    /\ pc = "done"
    /\ kept = NoKept
    /\ kept' = << [call |-> calls, file_path |-> file_path, file |-> file,
                   external |-> external, result |-> result] >>
    /\ UNCHANGED <<validator, ctor, pc, file_path, file, result, writes, locals, ops,
                   mainvars, external, format_arg, format_ret>>

\* the paths and the files the repeated calls are made on
CallPaths == {p \in Paths : Suffix(p) # <<".", "t", "x", "t">> /\ p # <<>>}

CallFiles == {NoFile} \cup {f \in RegularFiles : f.size = 1}

\* the instances they are made on: credentials from the arguments only
CallConstructions ==
    {c \in Constructions :
        c[1].kind = "azure" => c[2].env = [endpoint |-> None, key |-> None]}

InitCalls ==
    /\ mainpc = "none"
    /\ args = NoArgs
    /\ \E c \in CallConstructions : validator = c[1] /\ ctor = c[2]
    /\ Idle
    /\ format_arg = <<0>>

NextCalls ==
    \/ \E p \in CallPaths, f \in CallFiles : Basic_enter(p, f)
    \/ Basic_exists
    \/ Basic_isfile
    \/ Basic_size
    \/ Basic_mime
    \/ Basic_readable
    \/ Basic_finish
    \/ \E p \in CallPaths, f \in CallFiles : OCR_enter(p, f)
    \/ OCR_available
    \/ OCR_exists
    \/ OCR_open
    \/ OCR_image_to_string
    \/ OCR_image_to_data
    \/ \E p \in CallPaths, f \in CallFiles : Azure_enter(p, f)
    \/ Azure_available
    \/ Azure_credentials
    \/ Azure_exists
    \/ Azure_client
    \/ Azure_read
    \/ Azure_call
    \/ Azure_map
    \/ Remember

SpecCalls == InitCalls /\ [][NextCalls]_vars

(***************************************************************************)
(* A direct call of the static method _format_size, as the unit test makes *)
(***************************************************************************)
DigitValues == {0, 1, 100, 128, 512, 1023}

\* non-negative ints below 2^53 (as a float they are exact), without leading zeros
FormatInputs ==
    {ds \in SeqsUpTo(DigitValues, MaxDigits) :
        /\ Len(ds) >= 1
        /\ Len(ds) > 1 => ds[Len(ds)] # 0
        /\ Len(ds) <= 6
        /\ Len(ds) = 6 => ds[6] < 8}

InitFormat ==
    /\ mainpc = "none"
    /\ args = NoArgs
    /\ validator = BasicValidator
    /\ ctor = NoCtor
    /\ Idle
    /\ format_arg \in FormatInputs

\* self.validator._format_size(n)
Format_size ==
    /\ format_ret = ""
    /\ format_ret' = format_size(format_arg)
    /\ UNCHANGED <<validator, ctor, pc, file_path, file, result, writes, locals, ops,
                   mainvars, external, kept, format_arg>>

NextFormat == Format_size

SpecFormat == InitFormat /\ [][NextFormat]_vars

(***************************************************************************)
(* Properties                                                              *)
(***************************************************************************)
\* analyze has returned: result is the Result the caller holds
Returned == pc = "done"

Status == result["status"]

EndsWith(msg, tail) ==
    /\ Len(msg) >= Len(tail)
    /\ SubSeq(msg, Len(msg) - Len(tail) + 1, Len(msg)) = tail

(* C1: whenever analyze of any of the three validators returns for a path  *)
(* that does not exist, the Result has status 'failed' and a non-empty     *)
(* 'error', whatever the dependency availability and the credentials.      *)
C1_NonexistentPathFails ==
    (Returned /\ ~file.exists) =>
        /\ Status = "failed"
        /\ Has(result, "error")
        /\ Len(result["error"]) > 0

\* a vision validator with SDK and credentials got as far as the existence check
C1_Witness ==
    /\ Returned
    /\ ~file.exists
    /\ file_path # <<>>
    /\ validator.kind = "azure"
    /\ validator.available
    /\ Truthy(validator.endpoint) /\ Truthy(validator.key)
    /\ Status = "failed"
    /\ result["error"] = <<"File", "does", "not", "exist">>

(* C2: in every returned Result, 'error' is present iff status is 'failed' *)
(* and 'warning' is present iff status is 'warning'.                       *)
C2_ErrorWarningPresence ==
    Returned =>
        /\ Has(result, "error") <=> Status = "failed"
        /\ Has(result, "warning") <=> Status = "warning"

(* C3: during one analyze call the status is assigned exactly once, from   *)
(* 'unknown' to a terminal value that is never overwritten, and the        *)
(* returned Result never has status 'unknown'.                             *)
C3_StatusWrittenOnce ==
    /\ writes <= 1
    /\ Returned => (writes = 1 /\ Status # "unknown")

(* C4: main calls analyze exactly once and exits with 1 for 'failed', 2    *)
(* for 'warning' and 0 for any other status; no other code is produced.    *)
C4_ExitCodes ==
    /\ mainpc \in {"start", "analyze"} => calls = 0
    /\ mainpc \in {"running", "exit", "exited"} => calls = 1
    /\ mainpc # "exited" => exit_code = -1
    /\ mainpc = "exited" =>
        /\ exit_code \in {0, 1, 2}
        /\ Status = "failed" <=> exit_code = 1
        /\ Status = "warning" <=> exit_code = 2
        /\ Status \in {"passed", "success", "unknown"} <=> exit_code = 0

\* main has exited with 2 after a warning
C4_Witness ==
    /\ mainpc = "exited"
    /\ calls = 1
    /\ Status = "warning"
    /\ exit_code = 2

(* C5: for an existing regular file BasicValidator.analyze fails the size  *)
(* check iff the size is 0 or above MAX_FILE_SIZE = 50 MiB: a zero-byte    *)
(* file fails with an error containing 'empty', a larger file fails, and a *)
(* size in (0, MAX_FILE_SIZE], the maximum included, passes the size check.*)
C5_SizeCheck ==
    (Returned /\ validator.kind = "basic" /\ file.exists /\ file.isfile) =>
        LET size_error ==
                /\ Status = "failed"
                /\ \/ Contains(result["error"], "empty")
                   \/ Contains(result["error"], "exceeds")
        IN  /\ MAX_FILE_SIZE = 52428800
            /\ file.size = 0 => (Status = "failed" /\ Contains(result["error"], "empty"))
            /\ file.size > MAX_FILE_SIZE =>
                    (Status = "failed" /\ Contains(result["error"], "exceeds"))
            /\ (file.size = 0 \/ file.size > MAX_FILE_SIZE) <=> size_error
            /\ (0 < file.size /\ file.size <= MAX_FILE_SIZE) <=>
                    Has(result["checks"], "mime_type")

\* a file of exactly the maximum size has passed
C5_Witness ==
    /\ Returned
    /\ validator.kind = "basic"
    /\ file.isfile
    /\ file.size = MAX_FILE_SIZE
    /\ Status = "passed"

(* C6: for an existing, readable regular file with size in (0, maximum],   *)
(* BasicValidator.analyze returns 'warning' exactly when the guessed media *)
(* type is not supported and 'passed' exactly when it is, never 'failed';  *)
(* in the warning case the 'readable' and 'extension' checks are recorded. *)
C6_MediaTypeWarning ==
    (/\ Returned /\ validator.kind = "basic"
     /\ file.exists /\ file.isfile /\ file.readable
     /\ 0 < file.size /\ file.size <= MAX_FILE_SIZE) =>
        LET supported == guess_type(file_path) \in SUPPORTED_FORMATS
        IN  /\ Status = "warning" <=> ~supported
            /\ Status = "passed" <=> supported
            /\ file_path = <<"a", ".", "p", "n", "g">> => Status = "passed"
            /\ file_path = <<"b", ".", "t", "x", "t">> => Status = "warning"
            /\ Status = "warning" =>
                /\ Has(result, "warning")
                /\ result["checks"]["format_supported"] = FALSE
                /\ Has(result["checks"], "readable")
                /\ result["checks"]["readable"] = TRUE
                /\ Has(result["checks"], "extension")

\* an unsupported but readable file was analysed to the end
C6_Witness ==
    /\ Returned
    /\ validator.kind = "basic"
    /\ file.readable
    /\ Status = "warning"
    /\ Has(result["checks"], "readable")
    /\ result["checks"]["extension"] = <<".", "t", "x", "t">>

\* the OCR dependencies were missing when the validator was constructed
C7_Unavailable == validator.kind = "ocr" /\ ctor.probe # "ok"

(* C7: when the OCR dependencies were missing at construction, every       *)
(* analyze call on that instance, on any path, existing or not, returns    *)
(* 'failed' with an error naming the missing dependencies and with a       *)
(* remediation note; and no step of analyze changes the instance, so the   *)
(* availability found by the constructor is never probed again.            *)
C7_OCRUnavailableAlwaysFails ==
    /\ [](C7_Unavailable /\ Returned =>
            /\ Status = "failed"
            /\ Contains(result["error"], "dependencies")
            /\ EndsWith(result["error"], ImportErrorOf(ctor.probe))
            /\ Has(result, "note")
            /\ Contains(result["note"], "install"))
    /\ [][validator.kind = "ocr" => validator' = validator]_vars

\* the second call on an instance without dependencies, on an existing file
C7_Witness ==
    /\ C7_Unavailable
    /\ Returned
    /\ calls = 2
    /\ file.exists
    /\ Status = "failed"

\* neither the arguments nor the environment give an endpoint and a key
CredentialsUnset(c) ==
    ~ /\ Truthy(c.endpoint) \/ Truthy(c.env.endpoint)
      /\ Truthy(c.key) \/ Truthy(c.env.key)

(* C8 as stated: with the vision credentials unset, analyze on an existing *)
(* path returns 'failed' with an error referencing the missing             *)
(* credentials, constructs no client and makes no network access.          *)
C8_MissingCredentialsOriginal ==
    (/\ Returned /\ validator.kind = "azure"
     /\ file.exists /\ CredentialsUnset(ctor)) =>
        /\ Status = "failed"
        /\ Contains(result["error"], "credentials")
        /\ ops.client = 0
        /\ ops.net = 0

(* C8 amended: with the vision credentials unset, analyze on an existing   *)
(* path returns 'failed', constructs no client and makes no network        *)
(* access; the error references the missing credentials when the SDK is    *)
(* available, and the missing SDK when it is not.                          *)
C8_MissingCredentialsAmended ==
    (/\ Returned /\ validator.kind = "azure"
     /\ file.exists /\ CredentialsUnset(ctor)) =>
        /\ Status = "failed"
        /\ ops.client = 0
        /\ ops.net = 0
        /\ ~Has(locals, "client")
        /\ ctor.probe = "ok" =>
            /\ Contains(result["error"], "credentials")
            /\ Contains(result["note"], "AZURE_VISION_ENDPOINT")
            /\ Contains(result["note"], "AZURE_VISION_KEY")
        /\ ctor.probe # "ok" =>
            /\ Contains(result["error"], "SDK")
            /\ ~Contains(result["error"], "credentials")

\* the SDK is there and an endpoint was given, only the key is missing
C8_Witness ==
    /\ Returned
    /\ validator.kind = "azure"
    /\ file.exists
    /\ CredentialsUnset(ctor)
    /\ ctor.probe = "ok"
    /\ Truthy(ctor.endpoint)
    /\ Status = "failed"

(* C9: when OCRValidator.analyze has run the data pass, the reported       *)
(* confidence is the mean of the token confidences other than -1, and it   *)
(* is 0 with status 'success' when no token has one.                       *)
C9_MeanConfidence ==
    (Returned /\ validator.kind = "ocr" /\ Has(locals, "data")) =>
        LET scored == Scored(locals["data"].conf)
        IN  /\ Status = "success"
            /\ Has(result, "confidence")
            /\ IF scored = <<>>
               THEN result["confidence"].num = 0
               ELSE result["confidence"].num * Len(scored)
                        = SumSeq(scored) * result["confidence"].den

ValidatorNames == {"Basic Validation", "OCR Text Extraction", "Azure AI Vision"}

C10_MethodAndStatus ==
    /\ Has(result, "method") /\ Has(result, "file_path") /\ Has(result, "status")
    /\ result["method"] \in ValidatorNames
    /\ result["method"] = validator.name
    /\ Status \in {"passed", "success", "warning", "failed"}
    /\ result["file_path"] = file_path
    /\ mainpc # "none" => result["file_path"] = args.file

(* C10 as stated: every returned Result has non-empty 'method',            *)
(* 'file_path' and 'status'; 'method' is the validator's name and          *)
(* 'file_path' is the path passed in.                                      *)
C10_RequiredFieldsOriginal ==
    Returned => (C10_MethodAndStatus /\ result["file_path"] # <<>>)

(* C10 amended: every returned Result has the fields 'method', 'file_path' *)
(* and 'status'; 'method' is the validator's name and 'status' a terminal  *)
(* status, both non-empty; 'file_path' is the path passed in, non-empty    *)
(* whenever that path is.                                                  *)
C10_RequiredFieldsAmended ==
    Returned =>
        /\ C10_MethodAndStatus
        /\ file_path # <<>> => result["file_path"] # <<>>
        /\ file_path = <<>> => result["file_path"] = <<>>

\* a Result of each kind of outcome for a path that is not empty
C10_Witness ==
    /\ Returned
    /\ file_path = <<"b", ".", "t", "x", "t">>
    /\ result["file_path"] = <<"b", ".", "t", "x", "t">>
    /\ validator.kind = "basic"
    /\ Status = "warning"

\* the vision call got past its three checks and ended in the except clause
AzureRaised ==
    /\ Returned
    /\ validator.kind = "azure"
    /\ ops.client >= 1
    /\ Status = "failed"

(* C11: when AzureAIVisionValidator.analyze raises after the availability, *)
(* credential and existence checks (constructing the client, reading the   *)
(* file, the remote call or mapping the response), the Result is 'failed'  *)
(* with an error that embeds the exception message and has no 'analysis'   *)
(* field; the client, the read and the remote call are not retried.        *)
C11_ExceptionDiscardsAnalysis ==
    /\ (Returned /\ validator.kind = "azure" /\ ops.client >= 1) =>
            /\ ops.client = 1 /\ ops.read <= 1 /\ ops.net <= 1
            /\ Status \in {"success", "failed"}
    /\ AzureRaised =>
            /\ SubSeq(result["error"], 1, 5)
                    = <<"Azure", "AI", "Vision", "analysis", "failed:">>
            /\ \E msg \in {ClientError, OpenError, ServiceError, MappingError} :
                    EndsWith(result["error"], msg)
            /\ ~Has(result, "analysis")

\* the kinds of blocking operation the running call has performed
BlockingKinds == {k \in {"read", "ocr", "net"} : ops[k] > 0}

(* C12 as stated: each analyze call performs blocking operations of at     *)
(* most one kind among file read, OCR computation and network round trip,  *)
(* and at most one operation of that kind.                                 *)
C12_OneBlockingOperationOriginal ==
    /\ Cardinality(BlockingKinds) <= 1
    /\ \A k \in {"read", "ocr", "net"} : ops[k] <= 1

(* C12 amended: each analyze call opens or reads the file at most once;    *)
(* BasicValidator does nothing else that blocks; OCRValidator, after       *)
(* opening the image, runs the OCR engine at most twice (text recognition, *)
(* then the data pass) and never uses the network; AzureAIVisionValidator, *)
(* after reading the file, makes at most one network round trip and never  *)
(* runs OCR.  A successful OCR call has run the engine exactly twice, a    *)
(* successful vision call has made exactly one round trip.                 *)
C12_BlockingOperationsAmended ==
    /\ ops.read <= 1 /\ ops.ocr <= 2 /\ ops.net <= 1
    /\ ops.ocr = 0 \/ ops.net = 0
    /\ validator.kind \in {"none", "basic"} => (ops.ocr = 0 /\ ops.net = 0)
    /\ validator.kind = "ocr" => (ops.net = 0 /\ (ops.ocr > 0 => ops.read = 1))
    /\ validator.kind = "azure" => (ops.ocr = 0 /\ (ops.net > 0 => ops.read = 1))
    /\ (Returned /\ Status = "success" /\ validator.kind = "ocr") =>
            (ops.read = 1 /\ ops.ocr = 2)
    /\ (Returned /\ Status = "success" /\ validator.kind = "azure") =>
            (ops.read = 1 /\ ops.net = 1)
    /\ (Returned /\ Status \in {"passed", "warning"}) =>
            (validator.kind = "basic" /\ ops.read = 1)

\* a vision call that read the file, made its round trip and succeeded
C12_Witness ==
    /\ Returned
    /\ validator.kind = "azure"
    /\ Status = "success"
    /\ ops.read = 1
    /\ ops.net = 1
    /\ BlockingKinds = {"read", "net"}

\* the instance is what its constructor made of the arguments and the environment
ConfigAsConstructed ==
    /\ validator.kind = "basic" => validator = BasicValidator
    /\ validator.kind = "ocr" => validator = OCRValidator(ctor.probe)
    /\ validator.kind = "azure" =>
            validator = AzureAIVisionValidator(ctor.endpoint, ctor.key, ctor.env,
                                               ctor.probe)

\* the call has just been entered: result is the dict literal of lines 33-38
FreshResult ==
    pc \in {"basic_exists", "ocr_available", "azure_available"} =>
        /\ result = IF validator.kind = "basic"
                    THEN [method |-> validator.name, file_path |-> file_path,
                          status |-> "unknown", checks |-> <<>>]
                    ELSE [method |-> validator.name, file_path |-> file_path,
                          status |-> "unknown"]
        /\ locals = <<>>
        /\ writes = 0

\* the running call was made as the kept one: same path, file and collaborators
SameCall ==
    /\ kept # NoKept
    /\ kept[1].file_path = file_path
    /\ kept[1].file = file
    /\ kept[1].external = external

(* C13: no analyzer retains state between calls.  Through any sequence of  *)
(* analyze calls on one instance its configuration (name, availability,    *)
(* endpoint, key) stays what the constructor set; each call starts from a  *)
(* fresh Result that holds nothing of an earlier call; and a call made     *)
(* with the same path under the same filesystem and the same behaviour of  *)
(* the external collaborators as an earlier call returns a Result equal to *)
(* the one that call returned, whatever calls came in between.             *)
C13_NoStateBetweenCalls ==
    /\ ConfigAsConstructed
    /\ FreshResult
    /\ (Returned /\ SameCall) => result = kept[1].result

\* the third call repeats the first one, whose Result was kept, and succeeds
C13_Witness ==
    /\ Returned
    /\ calls = 3
    /\ SameCall
    /\ kept[1].call = 1
    /\ validator.kind = "azure"
    /\ Status = "success"
    /\ Has(result, "analysis")
    /\ result = kept[1].result

\* _format_size has returned
Formatted == format_ret # ""

\* format_arg is 1024^k
IsPower(k) ==
    /\ Len(format_arg) = k + 1
    /\ format_arg[k + 1] = 1
    /\ \A j \in 1..k : format_arg[j] = 0

UnitNames == <<"B", "KB", "MB", "GB", "TB">>

(* The parts C14 states for every byte count: the unit is the first of B,  *)
(* KB, MB, GB whose scaled value is below 1024, TB when none is, the value *)
(* is the byte count divided by 1024 once per unit passed and printed with *)
(* two decimals, and the three examples.                                   *)
C14_UnitAndValue ==
    LET len == Len(format_arg)
        i == IF len > 4 THEN 5 ELSE len
        small == format_arg[1] + (IF len = 2 THEN 1024 * format_arg[2] ELSE 0)
        d == IF len = 2 THEN 1024 ELSE 1
        Dist(h) == IF h * d >= 100 * small THEN h * d - 100 * small
                   ELSE 100 * small - h * d
    IN  /\ format_ret = Fmt2f(Round2(format_arg, i - 1)) \o " " \o UnitNames[i]
        /\ i < 5 => Round2(format_arg, i - 1) <= 102400
        /\ i > 1 => Round2(format_arg, i - 1) >= 100
        /\ len <= 2 =>
              \E h \in {(100 * small) \div d, (100 * small) \div d + 1} :
                  /\ format_ret = Fmt2f(h) \o " " \o UnitNames[i]
                  /\ 2 * Dist(h) <= d
                  /\ 2 * Dist(h) = d => h % 2 = 0
        /\ format_arg = <<100>> => format_ret = "100.00 B"
        /\ format_arg = <<0, 1>> => format_ret = "1.00 KB"
        /\ format_arg = <<0, 0, 1>> => format_ret = "1.00 MB"

(* C14 as stated: the above, and every exact power of 1024 is shown as     *)
(* 1.00 of the next unit.                                                  *)
C14_FormatSizeOriginal ==
    Formatted =>
        /\ C14_UnitAndValue
        /\ \A k \in 1..(MaxDigits - 1) :
              IsPower(k) => \E u \in 1..Len(UnitNames) : format_ret = "1.00 " \o UnitNames[u]

(* C14 amended: for every non-negative integer n, _format_size(n) divides  *)
(* by 1024 once per unit passed and labels the result B, KB, MB, GB or TB, *)
(* choosing the first unit whose scaled value is below 1024 and TB when    *)
(* none is, printed with two decimals; 100 is "100.00 B", 1024 "1.00 KB",  *)
(* 1048576 "1.00 MB"; 1024^k is shown as 1.00 of unit k for k = 1..4 (KB   *)
(* to TB), and from 1024^5 on the value stays in TB: 1024^5 is             *)
(* "1024.00 TB".                                                           *)
C14_FormatSizeAmended ==
    Formatted =>
        /\ C14_UnitAndValue
        /\ \A k \in 1..4 : IsPower(k) => format_ret = "1.00 " \o UnitNames[k + 1]
        /\ IsPower(0) => format_ret = "1.00 B"
        /\ IsPower(5) => format_ret = "1024.00 TB"

\* 1024^4 bytes were formatted as one terabyte
C14_Witness ==
    /\ Formatted
    /\ format_arg = <<0, 0, 0, 0, 1>>
    /\ format_ret = "1.00 TB"
====
